---- MODULE Spec2Model ----
(***************************************************************************)
(* Model of src/src/main.rs: the collision-vector construction             *)
(* (get_rating_collisions), the merge-based inversion counter              *)
(* (sort_and_count_inversions, merge_and_count_split_inversions) and the   *)
(* orchestration in make_recommendation_rating.                            *)
(*                                                                         *)
(* Three specifications share the module:                                  *)
(*   Spec      - make_recommendation_rating on a bounded rating table;     *)
(*   SortSpec  - sort_and_count_inversions as a pure function of a slice;  *)
(*   MergeSpec - the loop of merge_and_count_split_inversions, one         *)
(*               iteration per step, with the accumulators at their        *)
(*               machine width.                                            *)
(***************************************************************************)
EXTENDS Integers, Sequences, FiniteSets

VARIABLES
    ratings,          \* Vec<(u32, Vec<u32>)> returned by parse_input_file
    target_user_id,   \* u32 argument of make_recommendation_rating
    pc,               \* position in make_recommendation_rating, or how it ended
    collisions,       \* Vec<(u32, Vec<u32>)> of line 37, sorted in place by line 41
    inversions,       \* Vec<(u32, u32)> collected by lines 39-42
    ranking,          \* `inversions` after sort_by (line 44), as written out
    arg,              \* SortSpec: the slice as the caller passed it
    array,            \* SortSpec: the slice, mutated in place
    count,            \* SortSpec: the value sort_and_count_inversions returned
    spc,              \* SortSpec: "call", "returned" or "stack_overflow"
    layout,           \* MergeSpec: which array merge_and_count_split_inversions is given
    length,           \* MergeSpec: array.len() (line 132)
    mid,              \* MergeSpec: the argument mid, also l_length (line 133)
    l_pointer,        \* MergeSpec: line 137
    r_pointer,        \* MergeSpec: line 138
    split_intersections, \* MergeSpec: the usize accumulator of line 135, in 16-bit limbs
    merged,           \* MergeSpec: merged.len(), the number of elements pushed
    returned,         \* MergeSpec: the u32 returned by line 166, in 16-bit limbs
    mpc               \* MergeSpec: "loop" or "returned"

vars == <<ratings, target_user_id, pc, collisions, inversions,
          ranking, arg, array, count, spc, layout, length, mid, l_pointer,
          r_pointer, split_intersections, merged, returned, mpc>>

mainVars == <<ratings, target_user_id, pc, collisions, inversions, ranking>>
sortVars == <<arg, array, count, spc>>
mergeVars == <<layout, length, mid, l_pointer, r_pointer, split_intersections,
               merged, returned, mpc>>

MergeIdle ==
    /\ layout = "none" /\ length = 0 /\ mid = 0 /\ l_pointer = 0 /\ r_pointer = 0
    /\ split_intersections = <<0, 0, 0, 0>> /\ merged = 0
    /\ returned = <<0, 0>> /\ mpc = "idle"

----------------------------------------------------------------------------
(* Bounds of the model *)

MaxUsers == 3
MaxFilms == 2
MaxLen == 5
MaxVal == 3
StackLimit == 8
MaxMergeLen == 5
WideHalf == 65536

\* The code only compares user ids for equality, so one target id and two
\* further ids give every pattern of target, duplicate and distinct rows.
UserIds == 1..3
TargetIds == {1}

----------------------------------------------------------------------------
(* merge_and_count_split_inversions, lines 131-167 *)

RECURSIVE MergeLoop(_, _, _, _, _, _)
MergeLoop(a, m, l, r, out, split) ==
    LET len == Len(a)
        l_length == m
    IN  IF ~(l < m \/ r < len)                                      \* line 142
        THEN [array |-> out, split |-> split]                       \* lines 164-166
        ELSE IF l >= m                                              \* line 143
        THEN MergeLoop(a, m, l, r + 1, Append(out, a[r + 1]), split)
        ELSE IF r >= len                                            \* line 148
        THEN MergeLoop(a, m, l + 1, r, Append(out, a[l + 1]), split)
        ELSE IF a[l + 1] <= a[r + 1]                                \* line 154
        THEN MergeLoop(a, m, l + 1, r, Append(out, a[l + 1]), split)
        ELSE MergeLoop(a, m, l, r + 1, Append(out, a[r + 1]),
                       split + (l_length - l))                      \* line 160

\* A merge that never copies the buffer back (line 164 dropped).
MergeNoCopyBack(a, m) ==
    [array |-> a, split |-> MergeLoop(a, m, 0, m, <<>>, 0).split]

\* l, r, out and split stand for l_pointer, r_pointer, merged and
\* split_intersections (lines 135-140).  The counts of Spec and SortSpec stay
\* far below 2^32, where `as u32` and the u32 sum of line 128 are exact; the
\* width of the accumulators is modelled in MergeSpec.
MergeAndCountSplitInversions(a, m) ==
    MergeLoop(a, m, 0, m, <<>>, 0)

----------------------------------------------------------------------------
(* sort_and_count_inversions, lines 116-129.  `depth` is the number of     *)
(* frames of the function on the call stack; a call that would need more   *)
(* than StackLimit frames overflows the stack, which ends the process.     *)

RECURSIVE SortAndCountInversions(_, _)
SortAndCountInversions(a, depth) ==
    LET len == Len(a)
        m == len \div 2
    IN  IF depth > StackLimit
        THEN [overflow |-> TRUE, array |-> a, count |-> 0]
        ELSE IF len = 1
        THEN [overflow |-> FALSE, array |-> a, count |-> 0]
        ELSE LET left == SortAndCountInversions(SubSeq(a, 1, m), depth + 1)
             IN  IF left.overflow
                 THEN [overflow |-> TRUE, array |-> a, count |-> 0]
                 ELSE LET right == SortAndCountInversions(SubSeq(a, m + 1, len), depth + 1)
                      IN  IF right.overflow
                          THEN [overflow |-> TRUE, array |-> a, count |-> 0]
                          ELSE LET merge == MergeAndCountSplitInversions(left.array \o right.array, m)
                               IN  [overflow |-> FALSE,
                                    array |-> merge.array,
                                    count |-> left.count + right.count + merge.split]

----------------------------------------------------------------------------
(* SortSpec: the counter applied to every slice within the bounds *)

Slices == UNION {[1..n -> 0..MaxVal] : n \in 0..MaxLen}

SortInit ==
    /\ arg \in Slices
    /\ array = arg
    /\ count = 0
    /\ spc = "call"
    /\ ratings = <<>> /\ target_user_id = 0 /\ pc = "idle"
    /\ collisions = <<>> /\ inversions = <<>> /\ ranking = <<>>
    /\ MergeIdle

SortCall ==
    /\ spc = "call"
    /\ LET r == SortAndCountInversions(array, 1)
       IN  IF r.overflow
           THEN /\ spc' = "stack_overflow"
                /\ UNCHANGED <<array, count>>
           ELSE /\ spc' = "returned"
                /\ array' = r.array
                /\ count' = r.count
    /\ UNCHANGED <<arg>>
    /\ UNCHANGED <<mainVars, mergeVars>>

SortNext == SortCall

SortSpec == SortInit /\ [][SortNext]_vars

----------------------------------------------------------------------------
(* get_rating_collisions, lines 87-114 *)

\* Iterator::position (lines 104-106): the 0-based index of the first element
\* equal to v, as Some(index); None is modelled as -1.
Position(row, v) ==
    IF \E j \in 1..Len(row) : row[j] = v
    THEN (CHOOSE j \in 1..Len(row) : row[j] = v /\ \A h \in 1..(j - 1) : row[h] # v) - 1
    ELSE -1

\* A target lookup that keeps the first matching row instead of the last.
FirstTargetUserRating(rs, t) ==
    LET matches == SelectSeq(rs, LAMBDA e : e.id = t)
    IN  matches[1].rating

\* lines 91-97 after the unwrap: filter, collect, pop() keeps the last match.
TargetUserRating(rs, t) ==
    LET matches == SelectSeq(rs, LAMBDA e : e.id = t)
    IN  matches[Len(matches)].rating

\* A comparison-row filter that lets every row through.
AllRows(rs, t) == rs

\* line 101: the rows the loop visits, in table order.
ComparisonRows(rs, t) == SelectSeq(rs, LAMBDA e : e.id # t)

\* A collision that reads the comparison row at i instead of at `index`.
CollisionByItem(target_user_rating, rating, films) ==
    [panic |-> IF films > Len(rating) THEN "panic_index" ELSE "none",
     collision |-> IF films > Len(rating) THEN <<>> ELSE SubSeq(rating, 1, films)]

\* lines 103-109: the loop over i in 1..=films for one comparison row.
RECURSIVE CollisionLoop(_, _, _, _, _)
CollisionLoop(target_user_rating, rating, films, i, collision) ==
    IF i > films
    THEN [panic |-> "none", collision |-> collision]
    ELSE LET index == Position(target_user_rating, i)
         IN  IF index = -1
             THEN [panic |-> "panic_no_rank", collision |-> <<>>]    \* line 107
             ELSE IF index >= Len(rating)
             THEN [panic |-> "panic_index", collision |-> <<>>]      \* line 108
             ELSE CollisionLoop(target_user_rating, rating, films, i + 1,
                                Append(collision, rating[index + 1]))

\* lines 102-109 for one comparison row
Collision(target_user_rating, rating, films) ==
    CollisionLoop(target_user_rating, rating, films, 1, <<>>)

\* lines 101-111: the loop over the comparison rows; the first panic ends it.
RECURSIVE RowsLoop(_, _, _, _, _)
RowsLoop(target_user_rating, others, films, u, acc) ==
    IF u > Len(others)
    THEN [panic |-> "none", collisions |-> acc]
    ELSE LET c == Collision(target_user_rating, others[u].rating, films)
         IN  IF c.panic # "none"
             THEN [panic |-> c.panic, collisions |-> <<>>]
             ELSE RowsLoop(target_user_rating, others, films, u + 1,
                           Append(acc, [id |-> others[u].id,
                                        collision |-> c.collision]))

GetRatingCollisions(rs, t) ==
    IF Len(rs) = 0
    THEN [panic |-> "panic_no_rows", collisions |-> <<>>]           \* line 89
    ELSE IF \A u \in 1..Len(rs) : rs[u].id # t
    THEN [panic |-> "panic_no_target", collisions |-> <<>>]         \* line 96
    ELSE RowsLoop(TargetUserRating(rs, t), ComparisonRows(rs, t),
                  Len(rs[1].rating), 1, <<>>)

----------------------------------------------------------------------------
(* slice::sort_by with the comparator of line 44: a stable sort on .count *)

\* An insertion that puts x before the elements of equal count.
InsertBeforeEqual(sorted, x) ==
    LET before == SelectSeq(sorted, LAMBDA e : e.count < x.count)
        after == SelectSeq(sorted, LAMBDA e : e.count >= x.count)
    IN  before \o <<x>> \o after

\* x goes after every element that does not compare greater.
InsertStable(sorted, x) ==
    LET before == SelectSeq(sorted, LAMBDA e : e.count <= x.count)
        after == SelectSeq(sorted, LAMBDA e : e.count > x.count)
    IN  before \o <<x>> \o after

RECURSIVE SortByCount(_)
SortByCount(s) ==
    IF s = <<>> THEN <<>>
    ELSE InsertStable(SortByCount(SubSeq(s, 1, Len(s) - 1)), s[Len(s)])

----------------------------------------------------------------------------
(* Spec: make_recommendation_rating, lines 30-60, on a bounded table *)

Identity(f) == [i \in 1..f |-> i]

RankPermutations(f) == {s \in [1..f -> 1..f] : \A i, j \in 1..f : s[i] = s[j] => i = j}

\* Rows that break the permutation invariant: one of the right length whose
\* last rank repeats rank 1 (so rank f is missing), and one that is an item
\* short.
BrokenRows(f) ==
    (IF f >= 2 THEN {[i \in 1..f |-> IF i = f THEN 1 ELSE i]} ELSE {})
    \cup (IF f >= 1 THEN {Identity(f - 1)} ELSE {})

Rows(f) == RankPermutations(f) \cup BrokenRows(f)

Tables ==
    UNION {[1..n -> [id : UserIds, rating : Rows(f)]] :
              n \in 0..MaxUsers, f \in 0..MaxFilms}

Init ==
    /\ ratings \in Tables
    /\ target_user_id \in TargetIds
    /\ pc = "start"
    /\ collisions = <<>>
    /\ inversions = <<>>
    /\ ranking = <<>>
    /\ arg = <<>> /\ array = <<>> /\ count = 0 /\ spc = "idle"
    /\ MergeIdle

\* line 37
CallGetRatingCollisions ==
    /\ pc = "start"
    /\ LET r == GetRatingCollisions(ratings, target_user_id)
       IN  IF r.panic # "none"
           THEN /\ pc' = r.panic
                /\ UNCHANGED collisions
           ELSE /\ pc' = "map"
                /\ collisions' = r.collisions
    /\ UNCHANGED <<ratings, target_user_id, inversions, ranking>>
    /\ UNCHANGED <<sortVars, mergeVars>>

\* lines 39-42: the iterator visits the collisions in order; the closure
\* sorts each vector in place and yields (id, count).  A call that overflows
\* the stack ends the process before anything is collected.
RECURSIVE MapLoop(_, _, _, _)
MapLoop(cs, u, sorted, collected) ==
    IF u > Len(cs)
    THEN [overflow |-> FALSE, collisions |-> sorted, inversions |-> collected]
    ELSE LET r == SortAndCountInversions(cs[u].collision, 1)
         IN  IF r.overflow
             THEN [overflow |-> TRUE, collisions |-> cs, inversions |-> <<>>]
             ELSE MapLoop(cs, u + 1,
                          Append(sorted, [id |-> cs[u].id, collision |-> r.array]),
                          Append(collected, [id |-> cs[u].id, count |-> r.count]))

CollectInversions ==
    /\ pc = "map"
    /\ LET r == MapLoop(collisions, 1, <<>>, <<>>)
       IN  IF r.overflow
           THEN /\ pc' = "stack_overflow"
                /\ UNCHANGED <<collisions, inversions>>
           ELSE /\ collisions' = r.collisions
                /\ inversions' = r.inversions
                /\ pc' = "collected"
    /\ UNCHANGED <<ratings, target_user_id, ranking>>
    /\ UNCHANGED <<sortVars, mergeVars>>

\* lines 44-59: sort_by, then the ranking is handed to the output boundary
\* and Ok(()) is returned.
SortAndWrite ==
    /\ pc = "collected"
    /\ ranking' = SortByCount(inversions)
    /\ pc' = "done"
    /\ UNCHANGED <<ratings, target_user_id, collisions, inversions>>
    /\ UNCHANGED <<sortVars, mergeVars>>

Next ==
    \/ CallGetRatingCollisions
    \/ CollectInversions
    \/ SortAndWrite

Spec == Init /\ [][Next]_vars

----------------------------------------------------------------------------
(* MergeSpec: merge_and_count_split_inversions, lines 131-167, one loop     *)
(* iteration per step.  The numbers keep their machine width: a usize is    *)
(* four 16-bit limbs and a u32 two, least significant first.  The array is  *)
(* given by its layout, and of `merged` the length is kept: the branch      *)
(* taken and the value returned read `array`, never `merged`.               *)

Limb == 2 ^ 16

\* x + n in usize
AddUsize(x, n) ==
    LET s1 == x[1] + n
        s2 == x[2] + (s1 \div Limb)
        s3 == x[3] + (s2 \div Limb)
        s4 == x[4] + (s3 \div Limb)
    IN  <<s1 % Limb, s2 % Limb, s3 % Limb, s4 % Limb>>

\* `x as u32` for a usize x (line 166): the low 32 bits
AsU32(x) == <<x[1], x[2]>>

\* The arrays the merge is run on; both halves are sorted, as the recursive
\* calls of lines 124-125 leave them.  index is 0-based.
Layouts == {"left_high", "left_low", "equal", "interleaved"}

Element(lay, len, m, index) ==
    CASE lay = "left_high"   -> IF index < m THEN (len - m) + index + 1 ELSE index - m + 1
      [] lay = "left_low"    -> index + 1
      [] lay = "equal"       -> 1
      [] lay = "interleaved" -> IF index < m THEN 2 * index + 1 ELSE 2 * (index - m) + 2

MergeLengths == (2..MaxMergeLen) \cup {2 * WideHalf}

\* lines 132-140, on entry from line 126 (mid = length / 2, length >= 2)
MergeInit ==
    /\ layout \in Layouts
    /\ length \in MergeLengths
    /\ mid = length \div 2
    /\ l_pointer = 0
    /\ r_pointer = mid
    /\ split_intersections = <<0, 0, 0, 0>>
    /\ merged = 0
    /\ returned = <<0, 0>>
    /\ mpc = "loop"
    /\ ratings = <<>> /\ target_user_id = 0 /\ pc = "idle"
    /\ collisions = <<>> /\ inversions = <<>> /\ ranking = <<>>
    /\ arg = <<>> /\ array = <<>> /\ count = 0 /\ spc = "idle"

LoopCondition == l_pointer < mid \/ r_pointer < length              \* line 142

\* lines 143-147
MergeDrainRight ==
    /\ mpc = "loop" /\ LoopCondition
    /\ l_pointer >= mid
    /\ merged' = merged + 1
    /\ r_pointer' = r_pointer + 1
    /\ UNCHANGED <<layout, length, mid, l_pointer, split_intersections, returned, mpc>>
    /\ UNCHANGED <<mainVars, sortVars>>

\* lines 148-152
MergeDrainLeft ==
    /\ mpc = "loop" /\ LoopCondition
    /\ l_pointer < mid
    /\ r_pointer >= length
    /\ merged' = merged + 1
    /\ l_pointer' = l_pointer + 1
    /\ UNCHANGED <<layout, length, mid, r_pointer, split_intersections, returned, mpc>>
    /\ UNCHANGED <<mainVars, sortVars>>

\* lines 154-156
MergeTakeLeft ==
    /\ mpc = "loop" /\ LoopCondition
    /\ l_pointer < mid
    /\ r_pointer < length
    /\ Element(layout, length, mid, l_pointer) <= Element(layout, length, mid, r_pointer)
    /\ merged' = merged + 1
    /\ l_pointer' = l_pointer + 1
    /\ UNCHANGED <<layout, length, mid, r_pointer, split_intersections, returned, mpc>>
    /\ UNCHANGED <<mainVars, sortVars>>

\* lines 157-161
MergeTakeRight ==
    /\ mpc = "loop" /\ LoopCondition
    /\ l_pointer < mid
    /\ r_pointer < length
    /\ ~(Element(layout, length, mid, l_pointer) <= Element(layout, length, mid, r_pointer))
    /\ merged' = merged + 1
    /\ r_pointer' = r_pointer + 1
    /\ split_intersections' = AddUsize(split_intersections, mid - l_pointer)
    /\ UNCHANGED <<layout, length, mid, l_pointer, returned, mpc>>
    /\ UNCHANGED <<mainVars, sortVars>>

\* lines 164-166
MergeReturn ==
    /\ mpc = "loop" /\ ~LoopCondition
    /\ returned' = AsU32(split_intersections)
    /\ mpc' = "returned"
    /\ UNCHANGED <<layout, length, mid, l_pointer, r_pointer, split_intersections, merged>>
    /\ UNCHANGED <<mainVars, sortVars>>

MergeNext ==
    \/ MergeDrainRight
    \/ MergeDrainLeft
    \/ MergeTakeLeft
    \/ MergeTakeRight
    \/ MergeReturn

MergeSpec == MergeInit /\ [][MergeNext]_vars

----------------------------------------------------------------------------
(* Properties of sort_and_count_inversions (SortSpec) *)

\* The number of index pairs (i, j) with i < j and s[i] > s[j].
BruteForce(s) ==
    Cardinality({p \in (1..Len(s)) \X (1..Len(s)) : p[1] < p[2] /\ s[p[1]] > s[p[2]]})

IsSorted(s) == \A i \in 1..(Len(s) - 1) : s[i] <= s[i + 1]

\* C1: for every slice, of any length from 0 upward, the call returns, and
\* returns exactly the brute-force number of inverted pairs.
C1_CountIsBruteForce ==
    spc # "call" => (spc = "returned" /\ count = BruteForce(arg))

\* On every slice of length at least 1 the call returns the brute-force count.
NonEmptyCountIsBruteForce ==
    (spc # "call" /\ Len(arg) >= 1) => (spc = "returned" /\ count = BruteForce(arg))

\* C4: after sort_and_count_inversions returns, the slice it was given is in
\* non-decreasing order.
C4_SortedAfterReturn ==
    spc = "returned" => IsSorted(array)

C4_Witness ==
    spc = "returned" /\ Len(arg) >= 3 /\ ~IsSorted(arg) /\ array # arg

----------------------------------------------------------------------------
(* Properties of make_recommendation_rating (Spec) *)

ItemCount == IF ratings = <<>> THEN 0 ELSE Len(ratings[1].rating)

IsPermutationRow(row, f) ==
    /\ Len(row) = f
    /\ \A v \in 1..f : Cardinality({j \in 1..f : row[j] = v}) = 1

AllPermutation ==
    \A u \in 1..Len(ratings) : IsPermutationRow(ratings[u].rating, ItemCount)

TargetIndices == {u \in 1..Len(ratings) : ratings[u].id = target_user_id}
ComparisonIndices == {u \in 1..Len(ratings) : ratings[u].id # target_user_id}

TargetPresent == TargetIndices # {}
TargetDuplicated == Cardinality(TargetIndices) > 1

\* The row of the last table entry that carries the target's id.
LastTargetRow ==
    ratings[CHOOSE u \in TargetIndices : \A h \in TargetIndices : h <= u].rating
FirstTargetRow ==
    ratings[CHOOSE u \in TargetIndices : \A h \in TargetIndices : u <= h].rating

\* The k-th row, in table order, whose id differs from the target's.
ComparisonRow(k) ==
    ratings[CHOOSE u \in ComparisonIndices :
               Cardinality({h \in ComparisonIndices : h <= u}) = k]

Running == pc \in {"start", "map", "collected"}
Panicked == pc \in {"panic_no_rows", "panic_no_target", "panic_no_rank", "panic_index"}

\* C2: in a table of permutation rows, the collision vector of every
\* comparison row has length ItemCount, and its position i (0-based) holds the
\* rating the comparison user gave to the item the target ranked i + 1.
C2_CollisionVector ==
    (pc = "map" /\ AllPermutation) =>
        /\ Len(collisions) = Cardinality(ComparisonIndices)
        /\ \A k \in 1..Len(collisions) :
              /\ collisions[k].id = ComparisonRow(k).id
              /\ Len(collisions[k].collision) = ItemCount
              /\ \A i \in 0..(ItemCount - 1) :
                    \E item \in 1..ItemCount :
                        /\ LastTargetRow[item] = i + 1
                        /\ collisions[k].collision[i + 1] = ComparisonRow(k).rating[item]

C2_Witness ==
    /\ pc = "map" /\ AllPermutation /\ ItemCount >= 2
    /\ \E k \in 1..Len(collisions) :
          /\ collisions[k].collision # ComparisonRow(k).rating
          /\ collisions[k].collision # LastTargetRow

\* C3: the ranking is in non-decreasing order of count, and the entries of
\* equal count keep the order their rows have in the rating table.
C3_SortedStable ==
    pc = "done" =>
        /\ \A i \in 1..(Len(ranking) - 1) : ranking[i].count <= ranking[i + 1].count
        /\ Len(inversions) = Cardinality(ComparisonIndices)
        /\ \A k \in 1..Len(inversions) : inversions[k].id = ComparisonRow(k).id
        /\ Len(ranking) = Len(inversions)
        /\ \A c \in {inversions[k].count : k \in 1..Len(inversions)}
                   \cup {ranking[k].count : k \in 1..Len(ranking)} :
              SelectSeq(ranking, LAMBDA e : e.count = c)
                  = SelectSeq(inversions, LAMBDA e : e.count = c)

C3_Witness ==
    /\ pc = "done"
    /\ \E i, j \in 1..Len(ranking) :
          /\ i < j
          /\ ranking[i].count = ranking[j].count
          /\ ranking[i].id # ranking[j].id

\* C5: with ItemCount 0 the computation ends normally and every comparison
\* user's count is 0.
C5_ZeroItems ==
    (/\ \A u \in 1..Len(ratings) : ratings[u].rating = <<>>
     /\ TargetPresent
     /\ ~Running) =>
        /\ pc = "done"
        /\ Len(ranking) = Cardinality(ComparisonIndices)
        /\ \A k \in 1..Len(ranking) : ranking[k].count = 0

\* C6: when no row of a (non-empty) table carries the target id, the run
\* ends in a UserNotFound error returned to the caller, not in an abort and
\* not in a ranking.
C6_UserNotFound ==
    (ratings # <<>> /\ ~TargetPresent /\ ~Running) => pc = "err_user_not_found"

\* C7: a table with a row that is no permutation of 1..=ItemCount never
\* yields a ranking.
C7_NoRankingFromBrokenTable ==
    ~AllPermutation => pc # "done"

\* C8: a table whose only row is the target's yields the empty ranking, with
\* no panic and no abort.
C8_OnlyTarget ==
    (Len(ratings) = 1 /\ ratings[1].id = target_user_id) =>
        /\ ~Panicked
        /\ pc # "stack_overflow"
        /\ pc \in {"collected", "done"} => (inversions = <<>> /\ ranking = <<>>)

C8_Witness ==
    /\ Len(ratings) = 1 /\ ratings[1].id = target_user_id
    /\ pc = "done" /\ ranking = <<>>

\* C10 as stated: with the target id on several rows, the result has one
\* entry per row other than the chosen (last) target row.
C10_DuplicatesCompared ==
    (pc = "done" /\ TargetDuplicated) => Len(ranking) = Len(ratings) - 1

\* C10 amended: with the target id on several rows, the last of them gives
\* the target's ratings, and every row carrying the target id is left out:
\* the result has one entry per row whose id differs from the target's.
C10_DuplicatesExcluded ==
    TargetDuplicated =>
        /\ pc = "map" =>
              /\ Len(collisions) = Cardinality(ComparisonIndices)
              /\ \A k \in 1..Len(collisions) :
                    /\ collisions[k].id = ComparisonRow(k).id
                    /\ Len(collisions[k].collision) = ItemCount
                    /\ \A i \in 1..ItemCount :
                          \E item \in 1..Len(LastTargetRow) :
                              /\ LastTargetRow[item] = i
                              /\ collisions[k].collision[i] = ComparisonRow(k).rating[item]
        /\ pc = "done" =>
              /\ Len(ranking) = Cardinality(ComparisonIndices)
              /\ \A k \in 1..Len(ranking) : ranking[k].id # target_user_id

C10_Witness ==
    /\ pc = "done" /\ TargetDuplicated
    /\ AllPermutation /\ ItemCount >= 2
    /\ FirstTargetRow # LastTargetRow
    /\ Len(ranking) >= 1
    /\ Len(ranking) < Len(ratings) - 1

----------------------------------------------------------------------------
(* Properties of merge_and_count_split_inversions (MergeSpec) *)

\* The array of a layout, for the lengths a sequence can hold in the model.
ArrayOf(lay, len, m) == [i \in 1..len |-> Element(lay, len, m, i - 1)]

\* On the short arrays the stepwise loop pushes every element and returns
\* what MergeLoop computes.
MergeStepsAgreeWithMergeLoop ==
    (mpc = "returned" /\ length <= MaxMergeLen) =>
        /\ merged = length
        /\ returned =
              <<MergeAndCountSplitInversions(ArrayOf(layout, length, mid), mid).split, 0>>

\* C9: the counter never returns a wrapped or truncated count: what it
\* returns is the count it accumulated, unless an Overflow error ends the
\* call instead.
C9_NoTruncatedCount ==
    mpc # "loop" =>
        \/ mpc = "err_overflow"
        \/ /\ mpc = "returned"
           /\ split_intersections = <<returned[1], returned[2], 0, 0>>

====
